---- MODULE Spec2Model ----
(***************************************************************************)
(* The tree explorer router of git-explorer                                *)
(* (src/src/server/routers/tree_explorer.py): the serializer               *)
(* _filesystem_node_to_json and the request handler get_tree_data.         *)
(*                                                                         *)
(* Text is modelled as a sequence of one-character strings, so that        *)
(* str.lower() and pathlib's suffix are computed character by character.   *)
(* A pathlib.Path is the sequence of its parts.                            *)
(***************************************************************************)
EXTENDS Integers, Sequences, FiniteSets, TLC

VARIABLES
    repo,        \* the repository's content, as clone_repo puts it on disk
    pc,          \* per request: where get_tree_data stands
    query,       \* per request: the query parse_query returned
    stats,       \* per request: the FileSystemStats of its walk
    root_node,   \* per request: the root FileSystemNode
    response,    \* per request: the JSONResponse returned
    stages,      \* per request: the stages run so far, in order
    raised,      \* per request: the exception its except clause caught
    cancel,      \* per request: its caller has signalled cancellation
    node,        \* serializer harness: the node handed to the serializer
    doc          \* serializer harness: the document it returned

vars == <<repo, pc, query, stats, root_node, response, stages, raised, cancel, node, doc>>

----------------------------------------------------------------------------
(* Bounds of the model *)

\* entries of the repository below its root directory, for one request
MaxEntries == 3
\* the same, for the repositories concurrent requests ingest
ConcEntries == 1
\* requests in flight together
NumRequests == 2
\* the same, for the repositories whose subpaths are requested in every form
RootEntries == 2
\* entries below the root, for the trees handed to the serializer alone
SerEntries == 2

(* Program constants *)

\* the 1 GiB ceiling on the cumulative size of one ingestion
MAX_SIZE == 1073741824
\* the default of the max_file_size form field
DEFAULT_MAX_FILE_SIZE == 10485760

----------------------------------------------------------------------------
(* Text *)

UpperChars == <<"A","B","C","D","E","F","G","H","I","J","K","L","M",
                "N","O","P","Q","R","S","T","U","V","W","X","Y","Z">>
LowerChars == <<"a","b","c","d","e","f","g","h","i","j","k","l","m",
                "n","o","p","q","r","s","t","u","v","w","x","y","z">>

IsUpper(c) == \E i \in 1..Len(UpperChars) : UpperChars[i] = c

\* str.lower(), one character
lower_char(c) ==
    IF IsUpper(c)
    THEN LowerChars[CHOOSE i \in 1..Len(UpperChars) : UpperChars[i] = c]
    ELSE c

\* str.lower()
lower(s) == [i \in 1..Len(s) |-> lower_char(s[i])]

\* str.rfind(c), 1-based; 0 when c does not occur (Python's -1)
rfind(s, c) ==
    IF \E i \in 1..Len(s) : s[i] = c
    THEN CHOOSE i \in 1..Len(s) : s[i] = c /\ \A j \in (i+1)..Len(s) : s[j] # c
    ELSE 0

\* PurePath.name: the final part, "" for a path with no parts
PathName(path) == IF Len(path) = 0 THEN <<>> ELSE path[Len(path)]

\* PurePath.suffix: name[i:] when 0 < i < len(name) - 1 for i = name.rfind('.')
suffix(path) ==
    LET name == PathName(path)
        i    == rfind(name, ".")
    IN  IF 1 < i /\ i < Len(name) THEN SubSeq(name, i, Len(name)) ELSE <<>>

RECURSIVE JoinParts(_)
\* "/".join(parts)
JoinParts(parts) ==
    IF Len(parts) = 0 THEN <<>>
    ELSE IF Len(parts) = 1 THEN parts[1]
    ELSE parts[1] \o <<"/">> \o JoinParts(Tail(parts))

\* str(path) of a relative path: "." when it has no parts
PathStr(parts) == IF Len(parts) = 0 THEN <<".">> ELSE JoinParts(parts)

----------------------------------------------------------------------------
(* gitingest.schemas, as the router and its tests use it *)

\* FileSystemNodeType members, by their .name
FILE      == <<"F","I","L","E">>
DIRECTORY == <<"D","I","R","E","C","T","O","R","Y">>

\* FileSystemNode(name=, type=, path_str=, path=): the other fields take the
\* dataclass defaults. content is the node's lazily read text, kept in the node.
FileSystemNode(name, type, path_str, path, content) ==
    [name |-> name, type |-> type, path_str |-> path_str, path |-> path,
     size |-> 0, depth |-> 0, file_count |-> 0, dir_count |-> 0,
     children |-> <<>>, content |-> content]

NoStats == [none |-> TRUE]

\* an accumulator kept at module level: the one an earlier walk left
SharedStats ==
    IF \E q \in DOMAIN stats : stats[q] # NoStats
    THEN stats[CHOOSE q \in DOMAIN stats : stats[q] # NoStats]
    ELSE [visited |-> {}, total_files |-> 0, total_size |-> 0]

\* FileSystemStats()
FileSystemStats == [visited |-> {}, total_files |-> 0, total_size |-> 0]

----------------------------------------------------------------------------
(* The serializer *)

\* node.type.name, not lower-cased
TypeLabelRaw(n) == n.type

\* node.type.name.lower()
TypeLabel(n) == lower(n.type)

\* the seven fields, depth taken from the wrong attribute
CommonFieldsDepthSlip(n) ==
    [name       |-> n.name,
     type       |-> TypeLabel(n),
     path       |-> n.path_str,
     size       |-> n.size,
     depth      |-> n.dir_count,
     file_count |-> n.file_count,
     dir_count  |-> n.dir_count]

\* the seven fields, the two counts taken from each other's attribute
CommonFieldsCountsSwapped(n) ==
    [name       |-> n.name,
     type       |-> TypeLabel(n),
     path       |-> n.path_str,
     size       |-> n.size,
     depth      |-> n.depth,
     file_count |-> n.dir_count,
     dir_count  |-> n.file_count]

\* the seven fields every document carries
CommonFields(n) ==
    [name       |-> n.name,
     type       |-> TypeLabel(n),
     path       |-> n.path_str,
     size       |-> n.size,
     depth      |-> n.depth,
     file_count |-> n.file_count,
     dir_count  |-> n.dir_count]

\* node.path.suffix, not lower-cased
ExtensionRaw(n) == suffix(n.path)

\* node.path.suffix.lower() if node.path.suffix else ""
Extension(n) == IF suffix(n.path) # <<>> THEN lower(suffix(n.path)) ELSE <<>>

\* the FILE branch adding an empty children list too
FileFieldsWithChildren(n) ==
    [content |-> n.content, extension |-> Extension(n), children |-> << >>]

\* what the FILE branch adds
FileFields(n) == [content |-> n.content, extension |-> Extension(n)]

RECURSIVE _filesystem_node_to_json(_)

\* the children serialized last to first
ChildDocumentsReversed(n) ==
    [i \in 1..Len(n.children) |->
        _filesystem_node_to_json(n.children[Len(n.children) + 1 - i])]

\* the list comprehension over node.children
ChildDocuments(n) ==
    [i \in 1..Len(n.children) |-> _filesystem_node_to_json(n.children[i])]

\* what the DIRECTORY branch adds
DirectoryFields(n) == [children |-> ChildDocuments(n)]

_filesystem_node_to_json(n) ==
    LET result == CommonFields(n)
    IN  IF n.type = FILE THEN result @@ FileFields(n)
        ELSE IF n.type = DIRECTORY THEN result @@ DirectoryFields(n)
        ELSE result

----------------------------------------------------------------------------
(* The repository on disk.  An entry is [parent, type, name, size]; entry  *)
(* i lies in the directory repo[i].parent, and 0 is the clone's root       *)
(* directory.  An entry is listed after its directory.                     *)

\* file names of the repositories tried
Names ==
    << <<"f","i","l","e",".","p","y">>,
       <<"R","E","A","D","M","E">>,
       <<".","h","i","d","d","e","n">>,
       <<"f","i","l","e",".","t","a","r",".","g","z">>,
       <<"M","a","i","n",".","P","Y">>,
       <<"n","o","t","e","s",".">> >>

\* directory names of the repositories tried
DirNames ==
    << <<"s","r","c">>, <<"l","i","b">>, <<"d","o","c","s">>,
       <<"t","e","s","t","s">>, <<"p","k","g">> >>

NameAt(table, i) == table[((i - 1) % Len(table)) + 1]

\* the largest total the repositories tried hold: sums stay below 2 GiB
MaxTotalBytes == MAX_SIZE + (MAX_SIZE - 1)

\* a + b for sizes: Python's integers do not overflow, and no total of the
\* repositories tried passes MaxTotalBytes
Plus(a, b) == IF a > MaxTotalBytes - b THEN MaxTotalBytes ELSE a + b

RECURSIVE TotalBytes(_)
TotalBytes(fs) ==
    IF Len(fs) = 0 THEN 0 ELSE fs[Len(fs)].size + TotalBytes(SubSeq(fs, 1, Len(fs) - 1))

\* the directories of fs, the root included
DirsOf(fs) == {0} \cup {i \in 1..Len(fs) : fs[i].type = DIRECTORY}

SiblingNames(fs, d) == {fs[i].name : i \in {j \in 1..Len(fs) : fs[j].parent = d}}

\* the entries that may come n-th: a directory, or a file with one of the
\* names and sizes offered, in a directory listed before it
EntryChoices(fs, n, names, sizes) ==
    {[parent |-> d, type |-> DIRECTORY, name |-> NameAt(DirNames, n), size |-> 0] :
        d \in DirsOf(fs)}
    \cup
    {e \in [parent : DirsOf(fs), type : {FILE}, name : names[n], size : sizes] :
        /\ e.name \notin SiblingNames(fs, e.parent)
        /\ e.size <= MaxTotalBytes - TotalBytes(fs)}

RECURSIVE Repositories(_, _, _)
\* the repositories of n entries
Repositories(n, names, sizes) ==
    IF n = 0 THEN {<< >>}
    ELSE UNION {{Append(fs, e) : e \in EntryChoices(fs, n, names, sizes)} :
                    fs \in Repositories(n - 1, names, sizes)}

RECURSIVE PathOf(_, _)
\* the parts of entry i's path below the clone's root
PathOf(fs, i) == IF i = 0 THEN << >> ELSE Append(PathOf(fs, fs[i].parent), fs[i].name)

\* the entries of directory d in listing order
Listing(fs, d) == SelectSeq([i \in 1..Len(fs) |-> i], LAMBDA i : fs[i].parent = d)

\* the text of an entry: an empty file reads as ""
TextOf(e) == IF e.size = 0 THEN << >> ELSE <<"d","a","t","a">>

\* the entry a path below the clone's root names, -1 when there is none
EntryAt(fs, parts) ==
    IF \E i \in 0..Len(fs) : PathOf(fs, i) = parts
    THEN CHOOSE i \in 0..Len(fs) : PathOf(fs, i) = parts
    ELSE -1

\* Path.is_dir()
is_dir(fs, parts) ==
    LET i == EntryAt(fs, parts)
    IN  i = 0 \/ (i > 0 /\ fs[i].type = DIRECTORY)

----------------------------------------------------------------------------
(* Paths, as get_tree_data computes them *)

RECURSIVE lstrip(_, _)
lstrip(s, c) == IF Len(s) > 0 /\ s[1] = c THEN lstrip(Tail(s), c) ELSE s

RECURSIVE rstrip(_, _)
rstrip(s, c) ==
    IF Len(s) > 0 /\ s[Len(s)] = c THEN rstrip(SubSeq(s, 1, Len(s) - 1), c) ELSE s

\* str.strip(c)
strip(s, c) == rstrip(lstrip(s, c), c)

\* a segment of a path string becomes a part unless it is empty or "."
SegmentParts(seg) == IF seg = << >> \/ seg = <<".">> THEN << >> ELSE <<seg>>

RECURSIVE SplitPath(_, _)
SplitPath(s, seg) ==
    IF Len(s) = 0 THEN SegmentParts(seg)
    ELSE IF s[1] = "/" THEN SegmentParts(seg) \o SplitPath(Tail(s), << >>)
    ELSE SplitPath(Tail(s), Append(seg, s[1]))

\* Path(s) of a relative path string
Path(s) == SplitPath(s, << >>)

\* Path.relative_to(base), for a path below base
relative_to(path, base) == SubSeq(path, Len(base) + 1, Len(path))

----------------------------------------------------------------------------
(* Exceptions: str(e) is the message *)

Exception(type, message) == [type |-> type, message |-> message]
NoError == [type |-> "none", message |-> ""]
\* type(e).__name__ in place of str(e)
str_type_name(e) == e.type
str(e) == e.message

InvalidUrl       == Exception("ValueError", "Invalid URL format")
CloneErrors      == {Exception("Exception", "Repository not found"),
                     Exception("Exception", "Bad credentials"),
                     Exception("TimeoutError", "Network timeout")}
SizeLimitExceeded == Exception("SizeLimitExceeded",
                               "Repository too large: exceeds the limit of 1073741824 bytes")

----------------------------------------------------------------------------
(* The tree builder, gitingest.ingestion._process_node *)

\* an entry the query's rules leave out: a file over the per-file maximum
Excluded(e, q) == e.type = FILE /\ e.size > q.max_file_size

\* the node of entry i, a child of parent
ChildNode(fs, i, parent, q) ==
    [FileSystemNode(fs[i].name, fs[i].type,
                    PathStr(relative_to(Append(parent.path, fs[i].name), q.local_path)),
                    Append(parent.path, fs[i].name),
                    IF fs[i].type = FILE THEN TextOf(fs[i]) ELSE << >>)
        EXCEPT !.depth = parent.depth + 1]

\* a file: its size, counted in the walk's totals
ProcessFile(fs, i, child, st) ==
    [node  |-> [child EXCEPT !.size = fs[i].size],
     stats |-> [st EXCEPT !.total_files = @ + 1, !.total_size = Plus(@, fs[i].size)],
     err   |-> NoError]

\* the parent after a child was built: the child's contribution added
Accumulate(parent, child) ==
    [parent EXCEPT
        !.children   = Append(@, child),
        !.size       = Plus(@, child.size),
        !.file_count = @ + (IF child.type = FILE THEN 1 ELSE 0) + child.file_count,
        !.dir_count  = @ + (IF child.type = DIRECTORY THEN 1 ELSE 0) + child.dir_count]

RECURSIVE ProcessEntries(_, _, _, _, _)

\* _process_node(node, query, stats) for the directory that is entry d
_process_node(fs, d, n, q, st) == ProcessEntries(fs, Listing(fs, d), n, q, st)

ProcessEntries(fs, ids, n, q, st) ==
    IF Len(ids) = 0 THEN [node |-> n, stats |-> st, err |-> NoError]
    ELSE
      LET i   == Head(ids)
          loc == Append(n.path, fs[i].name)
      IN  IF loc \in st.visited \/ Excluded(fs[i], q)
          THEN ProcessEntries(fs, Tail(ids), n, q, st)
          ELSE
            LET st1   == [st EXCEPT !.visited = @ \cup {loc}]
                child == ChildNode(fs, i, n, q)
                r     == IF fs[i].type = FILE
                         THEN ProcessFile(fs, i, child, st1)
                         ELSE _process_node(fs, i, child, q, st1)
            IN  IF r.err # NoError
                THEN [node |-> n, stats |-> r.stats, err |-> r.err]
                ELSE IF r.stats.total_size > MAX_SIZE
                THEN [node |-> Accumulate(n, r.node), stats |-> r.stats,
                      err |-> SizeLimitExceeded]
                ELSE ProcessEntries(fs, Tail(ids), Accumulate(n, r.node), q, r.stats)

----------------------------------------------------------------------------
(* The request handler get_tree_data *)

Digits == <<"1","2","3","4","5","6","7","8","9">>

\* query.slug, and the clone directory parse_query gives each request
Slug == <<"u","s","e","r","-","r","e","p","o">>
LocalPath(r) == << <<"t","m","p">>, <<"c", NameAt(Digits, r)>>, Slug >>

\* query.subpath for the entry i of the repository: "/" for its root
SubpathOf(fs, i) == <<"/">> \o JoinParts(PathOf(fs, i))

\* the query parse_query returns
Query(r, fs, i, max_file_size) ==
    [url           |-> "https://github.com/user/repo",
     slug          |-> Slug,
     user_name     |-> "user",
     repo_name     |-> "repo",
     local_path    |-> LocalPath(r),
     subpath       |-> SubpathOf(fs, i),
     max_file_size |-> max_file_size]

\* the values of the max_file_size form field tried
MaxFileSizes == {DEFAULT_MAX_FILE_SIZE, MaxTotalBytes}

NoQuery    == [none |-> TRUE]
NoNode     == [none |-> TRUE]
NoResponse == [none |-> TRUE]

\* subpath = Path(query.subpath.strip("/")).as_posix(); path = query.local_path / subpath
RootPath(q) == q.local_path \o Path(PathStr(Path(strip(q.subpath, "/"))))

\* the root node with path_str=str(path), the path not made relative
RootNodeAbsolute(fs, q) ==
    LET path == RootPath(q)
        rel  == relative_to(path, q.local_path)
        i    == EntryAt(fs, rel)
    IN  FileSystemNode(IF PathName(path) # << >> THEN PathName(path) ELSE q.slug,
                       IF is_dir(fs, rel) THEN DIRECTORY ELSE FILE,
                       <<"/">> \o JoinParts(path),
                       path,
                       IF i > 0 /\ fs[i].type = FILE THEN TextOf(fs[i]) ELSE << >>)

\* root_node = FileSystemNode(name=, type=, path_str=, path=)
RootNode(fs, q) ==
    LET path == RootPath(q)
        rel  == relative_to(path, q.local_path)
        i    == EntryAt(fs, rel)
    IN  FileSystemNode(IF PathName(path) # << >> THEN PathName(path) ELSE q.slug,
                       IF is_dir(fs, rel) THEN DIRECTORY ELSE FILE,
                       PathStr(rel),
                       path,
                       IF i > 0 /\ fs[i].type = FILE THEN TextOf(fs[i]) ELSE << >>)

\* if path.is_dir(): _process_node(root_node, query, stats), for the stats given
BuildTreeWith(fs, q, st) ==
    LET root == RootNode(fs, q)
        rel  == relative_to(root.path, q.local_path)
    IN  IF is_dir(fs, rel)
        THEN _process_node(fs, EntryAt(fs, rel), root, q, st)
        ELSE [node |-> root, stats |-> NoStats, err |-> NoError]

\* stats = FileSystemStats() and the walk
BuildTree(fs, q) == BuildTreeWith(fs, q, FileSystemStats)

\* the summary text, by its parts
Summary(q, root) ==
    [repository  |-> q.slug,
     files       |-> root.file_count,
     directories |-> root.dir_count,
     empty_note  |-> (root.file_count = 0 /\ root.dir_count = 0)]

\* the repo_info object of the response
RepoInfo(q, root) ==
    [url         |-> q.url,
     slug        |-> q.slug,
     user_name   |-> q.user_name,
     repo_name   |-> q.repo_name,
     total_files |-> root.file_count,
     total_dirs  |-> root.dir_count]

\* return JSONResponse(content={...})
SuccessResponse(q, root) ==
    [status_code |-> 200,
     content     |-> [success   |-> TRUE,
                      data      |-> _filesystem_node_to_json(root),
                      summary   |-> Summary(q, root),
                      repo_info |-> RepoInfo(q, root)]]

\* the error response carrying a data field as well
ErrorResponseWithData(e) ==
    [status_code |-> 400,
     content     |-> [success |-> FALSE, error |-> str(e), data |-> << >>]]

\* except Exception as e: return JSONResponse(status_code=400, content={...})
ErrorResponse(e) ==
    [status_code |-> 400,
     content     |-> [success |-> FALSE, error |-> str(e)]]

\* the requests of this run
Requests == DOMAIN pc

TypeOK ==
    /\ pc \in [Requests -> {"parse", "clone", "process", "done"}]
    /\ DOMAIN query = Requests
    /\ DOMAIN response = Requests

\* parse_query's exception swallowed: the handler goes on to the clone
ParseSwallowsError(r) ==
    /\ pc[r] = "parse"
    /\ \/ \E i \in 0..Len(repo), m \in MaxFileSizes :
            /\ query' = [query EXCEPT ![r] = Query(r, repo, i, m)]
            /\ pc' = [pc EXCEPT ![r] = "clone"]
            /\ stages' = [stages EXCEPT ![r] = Append(@, "parse")]
            /\ UNCHANGED <<response, raised>>
       \/ /\ raised' = [raised EXCEPT ![r] = InvalidUrl]
          /\ pc' = [pc EXCEPT ![r] = "clone"]
          /\ stages' = [stages EXCEPT ![r] = @ \o <<"parse", "error">>]
          /\ UNCHANGED <<query, response>>
    /\ UNCHANGED <<repo, stats, root_node, cancel, node, doc>>

\* await parse_query(...): the query, or the exception it raises
Parse(r) ==
    /\ pc[r] = "parse"
    /\ \/ \E i \in 0..Len(repo), m \in MaxFileSizes :
            /\ query' = [query EXCEPT ![r] = Query(r, repo, i, m)]
            /\ pc' = [pc EXCEPT ![r] = "clone"]
            /\ stages' = [stages EXCEPT ![r] = Append(@, "parse")]
            /\ UNCHANGED <<response, raised>>
       \/ /\ raised' = [raised EXCEPT ![r] = InvalidUrl]
          /\ response' = [response EXCEPT ![r] = ErrorResponse(InvalidUrl)]
          /\ pc' = [pc EXCEPT ![r] = "done"]
          /\ stages' = [stages EXCEPT ![r] = @ \o <<"parse", "error">>]
          /\ UNCHANGED query
    /\ UNCHANGED <<repo, stats, root_node, cancel, node, doc>>

\* await clone_repo(...): done, or the exception it raises. An exception
\* unwinds the handler, and the query it held is gone with it.
Clone(r) ==
    /\ pc[r] = "clone"
    /\ \/ /\ pc' = [pc EXCEPT ![r] = "process"]
          /\ stages' = [stages EXCEPT ![r] = Append(@, "clone")]
          /\ UNCHANGED <<response, raised, query>>
       \/ \E e \in CloneErrors :
            /\ raised' = [raised EXCEPT ![r] = e]
            /\ response' = [response EXCEPT ![r] = ErrorResponse(e)]
            /\ pc' = [pc EXCEPT ![r] = "done"]
            /\ stages' = [stages EXCEPT ![r] = @ \o <<"clone", "error">>]
            /\ query' = [query EXCEPT ![r] = NoQuery]
    /\ UNCHANGED <<repo, stats, root_node, cancel, node, doc>>

\* the rest of the handler, which awaits nothing: build the tree, serialize
\* it and respond, or respond with the exception the walk raised
Process(r) ==
    /\ pc[r] = "process"
    /\ LET built == BuildTree(repo, query[r])
       IN  \/ /\ built.err = NoError
              /\ stats' = [stats EXCEPT ![r] = built.stats]
              /\ root_node' = [root_node EXCEPT ![r] = built.node]
              /\ response' = [response EXCEPT
                                 ![r] = SuccessResponse(query[r], built.node)]
              /\ stages' = [stages EXCEPT
                                 ![r] = @ \o <<"build", "serialize", "respond">>]
              /\ UNCHANGED <<raised, query>>
           \/ /\ built.err # NoError
              /\ raised' = [raised EXCEPT ![r] = built.err]
              /\ response' = [response EXCEPT ![r] = ErrorResponse(built.err)]
              /\ stages' = [stages EXCEPT ![r] = @ \o <<"build", "error">>]
              /\ query' = [query EXCEPT ![r] = NoQuery]
              /\ UNCHANGED <<stats, root_node>>
    /\ pc' = [pc EXCEPT ![r] = "done"]
    /\ UNCHANGED <<repo, cancel, node, doc>>

\* the sizes of the files of the repositories the requests ingest
FileSizes == {1, MAX_SIZE - 1, MAX_SIZE, MAX_SIZE + 1}

\* entry n of these repositories, when a file, has the n-th name
NamesByEntry(k) == [n \in 1..k |-> {NameAt(Names, n)}]

NoDoc == [none |-> TRUE]

\* the handler's state as rs requests arrive for one of repos
InitRequests(rs, repos) ==
    /\ repo \in repos
    /\ pc = [r \in rs |-> "parse"]
    /\ query = [r \in rs |-> NoQuery]
    /\ stats = [r \in rs |-> NoStats]
    /\ root_node = [r \in rs |-> NoNode]
    /\ response = [r \in rs |-> NoResponse]
    /\ stages = [r \in rs |-> << >>]
    /\ raised = [r \in rs |-> NoError]
    /\ cancel = [r \in rs |-> FALSE]
    /\ node = NoNode
    /\ doc = NoDoc

ParseQuery  == \E r \in Requests : Parse(r)
CloneRepo   == \E r \in Requests : Clone(r)
ProcessRepo == \E r \in Requests : Process(r)

Next == ParseQuery \/ CloneRepo \/ ProcessRepo

\* one request
Init == InitRequests({1}, Repositories(MaxEntries, NamesByEntry(MaxEntries), FileSizes))

Spec == Init /\ [][Next]_vars

\* requests in flight together, on repositories of files of these sizes
ConcSizes == {1, MAX_SIZE}

InitConc ==
    InitRequests(1..NumRequests,
                 Repositories(ConcEntries, NamesByEntry(ConcEntries), ConcSizes))

SpecConc == InitConc /\ [][Next]_vars

----------------------------------------------------------------------------
(* One request whose caller may cancel it during the walk *)

\* the caller gives the request up while the handler runs its walk. The walk
\* is one synchronous call on the event loop (lines 104-110): it is handed no
\* signal and awaits nothing, so where in the walk the signal falls makes no
\* difference to it, and the signal is placed before the step that walks.
Cancel(r) ==
    /\ pc[r] = "process"
    /\ ~cancel[r]
    /\ cancel' = [cancel EXCEPT ![r] = TRUE]
    /\ UNCHANGED <<repo, pc, query, stats, root_node, response, stages, raised, node, doc>>

CancelRequest == \E r \in Requests : Cancel(r)

NextCancel == ParseQuery \/ CloneRepo \/ CancelRequest \/ ProcessRepo

\* entries of the repositories of these requests
CancelEntries == 2

InitCancel ==
    InitRequests({1}, Repositories(CancelEntries, NamesByEntry(CancelEntries), FileSizes))

SpecCancel == InitCancel /\ [][NextCancel]_vars

----------------------------------------------------------------------------
(* One request past its clone, for every clone path and form of subpath *)

\* the local clone paths tried: parse_query's, a shorter one, the tests'
LocalPaths ==
    {LocalPath(1), <<Slug>>, << <<"t","m","p">>, <<"t","e","s","t","-","r","e","p","o">> >>}

\* the forms in which the subpath of entry i is requested: with a leading
\* slash, with none ("" for the root), with a trailing one
SubpathForms(fs, i) ==
    {SubpathOf(fs, i), JoinParts(PathOf(fs, i)), JoinParts(PathOf(fs, i)) \o <<"/">>}

\* the queries parse_query may have returned for a repository
RootQueries(fs) ==
    {[Query(1, fs, 0, DEFAULT_MAX_FILE_SIZE) EXCEPT !.local_path = lp, !.subpath = sp] :
        lp \in LocalPaths,
        sp \in UNION {SubpathForms(fs, i) : i \in 0..Len(fs)}}

InitRoot ==
    /\ repo \in Repositories(RootEntries, NamesByEntry(RootEntries), {1})
    /\ pc = [r \in {1} |-> "process"]
    /\ query \in {[r \in {1} |-> q] : q \in RootQueries(repo)}
    /\ stats = [r \in {1} |-> NoStats]
    /\ root_node = [r \in {1} |-> NoNode]
    /\ response = [r \in {1} |-> NoResponse]
    /\ stages = [r \in {1} |-> <<"parse", "clone">>]
    /\ raised = [r \in {1} |-> NoError]
    /\ cancel = [r \in {1} |-> FALSE]
    /\ node = NoNode
    /\ doc = NoDoc

SpecRoot == InitRoot /\ [][ProcessRepo]_vars

----------------------------------------------------------------------------
(* The same local path ingested by several requests with one configuration, *)
(* as when parse_query hands every call the same query (the tests' mock)    *)

\* entries of the repositories ingested more than once
TwiceEntries == 2

\* the configurations tried: a clone path, an entry's subpath, a per-file maximum
TwiceQueries(fs) ==
    {[Query(1, fs, i, m) EXCEPT !.local_path = lp] :
        lp \in LocalPaths, i \in 0..Len(fs), m \in MaxFileSizes}

InitTwice ==
    /\ repo \in Repositories(TwiceEntries, NamesByEntry(TwiceEntries), FileSizes)
    /\ pc = [r \in 1..NumRequests |-> "process"]
    /\ query \in {[r \in 1..NumRequests |-> q] : q \in TwiceQueries(repo)}
    /\ stats = [r \in 1..NumRequests |-> NoStats]
    /\ root_node = [r \in 1..NumRequests |-> NoNode]
    /\ response = [r \in 1..NumRequests |-> NoResponse]
    /\ stages = [r \in 1..NumRequests |-> <<"parse", "clone">>]
    /\ raised = [r \in 1..NumRequests |-> NoError]
    /\ cancel = [r \in 1..NumRequests |-> FALSE]
    /\ node = NoNode
    /\ doc = NoDoc

SpecTwice == InitTwice /\ [][ProcessRepo]_vars

----------------------------------------------------------------------------
(* The serializer alone, on the trees the handler builds *)

\* the sizes and names of the files of these trees
SerSizes == {0, 100}
AnyName(k) == [n \in 1..k |-> {Names[j] : j \in 1..Len(Names)}]

\* the root nodes get_tree_data builds for the subpaths of a repository
BuiltNodes(fs) ==
    {BuildTree(fs, Query(1, fs, i, DEFAULT_MAX_FILE_SIZE)).node : i \in 0..Len(fs)}

SerNodes(k) == UNION {BuiltNodes(fs) : fs \in Repositories(k, AnyName(k), SerSizes)}

InitSer ==
    /\ node \in SerNodes(SerEntries)
    /\ doc = NoDoc
    /\ repo = << >>
    /\ pc = << >>
    /\ query = << >>
    /\ stats = << >>
    /\ root_node = << >>
    /\ response = << >>
    /\ stages = << >>
    /\ raised = << >>
    /\ cancel = << >>

\* json_data = _filesystem_node_to_json(node)
Serialize ==
    /\ doc = NoDoc
    /\ doc' = _filesystem_node_to_json(node)
    /\ UNCHANGED <<repo, pc, query, stats, root_node, response, stages, raised, cancel, node>>

SpecSer == InitSer /\ [][Serialize]_vars

----------------------------------------------------------------------------
(* What the claims say of the serializer *)

RECURSIVE Levels(_, _)
\* a node and its document, and so on for the children both have, at every level
Levels(n, d) ==
    {<<n, d>>} \cup
    (IF "children" \in DOMAIN d
     THEN UNION {Levels(n.children[i], d.children[i]) :
                    i \in (1..Len(n.children)) \cap (1..Len(d.children))}
     ELSE {})

Serialized == doc # NoDoc

\* C1: at every level, the document of a FILE node has the keys content and
\* extension and no children key, and the document of a DIRECTORY node has the
\* key children and neither content nor extension.
C1_KeysFollowKind ==
    Serialized =>
        \A p \in Levels(node, doc) :
            /\ p[1].type = FILE =>
                  /\ {"content", "extension"} \subseteq DOMAIN p[2]
                  /\ "children" \notin DOMAIN p[2]
            /\ p[1].type = DIRECTORY =>
                  /\ "children" \in DOMAIN p[2]
                  /\ {"content", "extension"} \cap DOMAIN p[2] = {}

\* a directory was serialized that holds a directory holding a file
C1_Witness ==
    /\ Serialized
    /\ node.type = DIRECTORY
    /\ \E p \in Levels(node, doc) : p[1].type = FILE /\ p[1].depth = 2
    /\ \E p \in Levels(node, doc) : p[1].type = DIRECTORY /\ p[1].depth = 1

LabelFile      == <<"f","i","l","e">>
LabelDirectory == <<"d","i","r","e","c","t","o","r","y">>

\* C2: at every level, the document carries name, type, path, size, depth,
\* file_count and dir_count, each the node's own value, and type is "file" for
\* a FILE node and "directory" for a DIRECTORY node.
C2_CommonFields ==
    Serialized =>
        \A p \in Levels(node, doc) :
            LET n == p[1]
                d == p[2]
            IN  /\ {"name", "type", "path", "size", "depth", "file_count", "dir_count"}
                      \subseteq DOMAIN d
                /\ d.name = n.name
                /\ d.path = n.path_str
                /\ d.size = n.size
                /\ d.depth = n.depth
                /\ d.file_count = n.file_count
                /\ d.dir_count = n.dir_count
                /\ n.type = FILE => d.type = LabelFile
                /\ n.type = DIRECTORY => d.type = LabelDirectory

\* a tree was serialized whose root counts a file and a directory below it, the
\* file not empty
C2_Witness ==
    /\ Serialized
    /\ node.type = DIRECTORY
    /\ node.file_count = 1 /\ node.dir_count = 1 /\ node.size > 0
    /\ \E p \in Levels(node, doc) : p[1].type = FILE /\ p[1].depth > 0

\* C3: the children of a DIRECTORY node's document are as many as the node's
\* children, the i-th the serialization of the i-th child, and an empty
\* directory has the empty sequence.
C3_ChildrenInOrder ==
    Serialized =>
        \A p \in Levels(node, doc) :
            LET n == p[1]
                d == p[2]
            IN  n.type = DIRECTORY =>
                    /\ "children" \in DOMAIN d
                    /\ Len(d.children) = Len(n.children)
                    /\ \A i \in 1..Len(n.children) :
                          /\ d.children[i].name = n.children[i].name
                          /\ d.children[i] = _filesystem_node_to_json(n.children[i])
                    /\ n.children = << >> => d.children = << >>

\* a directory of two children was serialized, one of them an empty directory
C3_Witness ==
    /\ Serialized
    /\ Len(node.children) = 2
    /\ Len(doc.children) = 2
    /\ \E i \in 1..2 : node.children[i].type = DIRECTORY /\ doc.children[i].children = << >>

HasUpper(s) == \E i \in 1..Len(s) : IsUpper(s[i])

\* the last dot of the name lies after its first character and before its last
HasSuffix(name) ==
    \E i \in 2..(Len(name) - 1) :
        name[i] = "." /\ \A j \in (i + 1)..Len(name) : name[j] # "."

\* C5: the extension of a FILE node's document is the lower-cased final suffix
\* of the file name with its leading dot, and "" when the name has no dot or
\* only a leading one: file.py gives .py, file.tar.gz gives .gz, README and
\* .hidden give "".
C5_Extension ==
    Serialized =>
        \A p \in Levels(node, doc) :
            LET name == p[1].name
                ext  == p[2].extension
            IN  p[1].type = FILE =>
                  /\ ext # << >> <=> HasSuffix(name)
                  /\ ext # << >> =>
                        /\ Len(ext) >= 2 /\ Len(ext) < Len(name)
                        /\ ext[1] = "."
                        /\ \A j \in 2..Len(ext) : ext[j] # "."
                        /\ ~HasUpper(ext)
                        /\ ext = lower(SubSeq(name, Len(name) - Len(ext) + 1, Len(name)))
                  /\ (\A j \in 1..Len(name) : name[j] # ".") => ext = << >>
                  /\ name = <<"f","i","l","e",".","p","y">> => ext = <<".","p","y">>
                  /\ name = <<"f","i","l","e",".","t","a","r",".","g","z">>
                        => ext = <<".","g","z">>
                  /\ name = <<"R","E","A","D","M","E">> => ext = << >>
                  /\ name = <<".","h","i","d","d","e","n">> => ext = << >>

\* a directory holding file.tar.gz and .hidden was serialized
C5_Witness ==
    /\ Serialized
    /\ \E p \in Levels(node, doc) :
          p[1].name = <<"f","i","l","e",".","t","a","r",".","g","z">>
          /\ p[2].extension = <<".","g","z">>
    /\ \E p \in Levels(node, doc) :
          p[1].name = <<".","h","i","d","d","e","n">> /\ p[2].extension = << >>

----------------------------------------------------------------------------
(* What the claims say of get_tree_data *)

Done(r)      == pc[r] = "done"
Succeeded(r) == Done(r) /\ response[r].status_code = 200
Failed(r)    == Done(r) /\ response[r].status_code # 200

RECURSIVE Documents(_)
\* a document and the documents nested in it
Documents(d) ==
    {d} \cup (IF "children" \in DOMAIN d
              THEN UNION {Documents(d.children[i]) : i \in 1..Len(d.children)}
              ELSE {})

\* C4: in the document a request returns, the root's depth is 0 and the depth
\* of every child document is its parent's plus 1.
C4_DepthIsLevel ==
    \A r \in Requests :
        Succeeded(r) =>
            /\ response[r].content.data.depth = 0
            /\ \A d \in Documents(response[r].content.data) :
                  "children" \in DOMAIN d =>
                      \A i \in 1..Len(d.children) : d.children[i].depth = d.depth + 1

\* a request returned a tree three levels deep below a root that counts a
\* directory
C4_Witness ==
    \E r \in Requests :
        /\ Succeeded(r)
        /\ response[r].content.data.dir_count >= 1
        /\ \E d \in Documents(response[r].content.data) : d.depth = 3

\* C6: a finished request has either a success response with the document and
\* no error, or an error response with an error message and no document,
\* whichever stage raised.
C6_DocumentOrError ==
    \A r \in Requests :
        Done(r) =>
            LET c == response[r].content
            IN  \/ /\ response[r].status_code = 200
                   /\ raised[r] = NoError
                   /\ c.success = TRUE
                   /\ "data" \in DOMAIN c
                   /\ "error" \notin DOMAIN c
                \/ /\ response[r].status_code = 400
                   /\ raised[r] # NoError
                   /\ c.success = FALSE
                   /\ "error" \in DOMAIN c
                   /\ c.error = raised[r].message
                   /\ DOMAIN c \cap {"data", "tree", "summary", "repo_info"} = {}

\* a request failed in the walk, after its parse and its clone
C6_Witness ==
    \E r \in Requests :
        /\ Failed(r)
        /\ stages[r] = <<"parse", "clone", "build", "error">>
        /\ "error" \in DOMAIN response[r].content

CloneFailed(r) == Done(r) /\ stages[r] = <<"parse", "clone", "error">>

\* C7: when the clone fails, the response has status 400 and its error field
\* is the clone failure's own message.
C7_CloneErrorPassedOn ==
    \A r \in Requests :
        CloneFailed(r) =>
            /\ raised[r] \in CloneErrors
            /\ response[r].status_code = 400
            /\ "error" \in DOMAIN response[r].content
            /\ response[r].content.error = raised[r].message
            /\ response[r].content.error \in
                  {"Repository not found", "Bad credentials", "Network timeout"}

\* a clone timed out
C7_Witness ==
    \E r \in Requests :
        /\ CloneFailed(r)
        /\ raised[r].type = "TimeoutError"
        /\ response[r].content.error = "Network timeout"

\* the entry i lies at or below the entry top
RECURSIVE IsUnder(_, _, _)
IsUnder(fs, i, top) ==
    IF i = top THEN TRUE ELSE IF i = 0 THEN FALSE ELSE IsUnder(fs, fs[i].parent, top)

RECURSIVE SumOfSizes(_, _)
SumOfSizes(fs, ids) ==
    IF ids = {} THEN 0
    ELSE LET i == CHOOSE j \in ids : TRUE
         IN  fs[i].size + SumOfSizes(fs, ids \ {i})

\* the bytes of the files an ingestion of the query's path takes in: the file
\* itself, or the files below the directory that the query's rules keep
CumulativeSize(fs, q) ==
    LET top == EntryAt(fs, relative_to(RootPath(q), q.local_path))
    IN  SumOfSizes(fs, {i \in 1..Len(fs) :
                          /\ fs[i].type = FILE
                          /\ IsUnder(fs, i, top)
                          /\ (i = top \/ ~Excluded(fs[i], q))})

\* request r runs the rest of its handler in this step
Processes(r) == pc[r] = "process" /\ pc'[r] = "done"

\* C8: an ingestion of at most 1 GiB in all succeeds, and one of a byte or more
\* over fails with status 400, an error saying the repository is too large, and
\* no document.
C8_SizeCeiling ==
    [][\A r \in Requests :
          Processes(r) =>
              IF CumulativeSize(repo, query[r]) <= MAX_SIZE
              THEN /\ response'[r].status_code = 200
                   /\ "data" \in DOMAIN response'[r].content
              ELSE /\ response'[r].status_code = 400
                   /\ "data" \notin DOMAIN response'[r].content
                   /\ "error" \in DOMAIN response'[r].content
                   /\ response'[r].content.error = SizeLimitExceeded.message]_vars

\* C10: a successful request answers 200 with the serialized root under the
\* key tree and the walk's statistics under the key stats, stats.total_files
\* being the files the walk counted.
C10_TreeAndStats ==
    \A r \in Requests :
        Succeeded(r) =>
            /\ "tree" \in DOMAIN response[r].content
            /\ "stats" \in DOMAIN response[r].content
            /\ response[r].content.tree = _filesystem_node_to_json(root_node[r])
            /\ response[r].content.stats.total_files = stats[r].total_files

IsPrefix(a, b) == Len(a) <= Len(b) /\ SubSeq(b, 1, Len(a)) = a

\* the accumulator as FileSystemStats() makes it
EmptyStats == [visited |-> {}, total_files |-> 0, total_size |-> 0]

\* what a request's walk comes to when no other request runs
Alone(fs, q) == BuildTreeWith(fs, q, EmptyStats)

\* C9: whatever the interleaving, the step in which a request walks and answers
\* leaves every other request's accumulator, tree, query and response as they
\* were, its own accumulator holds only locations below its own clone, and its
\* accumulator, tree and response are those it has when run alone.
C9_Isolated ==
    [][\A r \in Requests :
          Processes(r) =>
              /\ \A o \in Requests \ {r} :
                    /\ stats'[o] = stats[o]
                    /\ root_node'[o] = root_node[o]
                    /\ query'[o] = query[o]
                    /\ response'[o] = response[o]
              /\ IF Alone(repo, query[r]).err = NoError
                 THEN /\ [node |-> root_node'[r], stats |-> stats'[r], err |-> NoError]
                            = Alone(repo, query[r])
                      /\ response'[r] = SuccessResponse(query[r], root_node'[r])
                      /\ IsPrefix(query[r].local_path, root_node'[r].path)
                      /\ stats'[r] # NoStats =>
                            \A loc \in stats'[r].visited :
                                IsPrefix(query[r].local_path, loc)
                 ELSE response'[r] = ErrorResponse(Alone(repo, query[r]).err)]_vars

\* two requests have both walked a directory, each counting a file in it
C9_Witness ==
    \E r, o \in Requests :
        /\ r # o
        /\ Succeeded(r) /\ Succeeded(o)
        /\ stats[r] # NoStats /\ stats[o] # NoStats
        /\ stats[r].total_files >= 1 /\ stats[o].total_files >= 1

----------------------------------------------------------------------------
(* What the claims say of the tree an ingestion returns *)

RECURSIVE Nodes(_)
\* a node and the nodes below it
Nodes(n) == {n} \cup UNION {Nodes(n.children[i]) : i \in 1..Len(n.children)}

RECURSIVE SumOver(_, _)
\* the sum of f over the elements of a sequence
SumOver(f(_), seq) == IF Len(seq) = 0 THEN 0 ELSE f(Head(seq)) + SumOver(f, Tail(seq))

\* what a child node adds to its directory's counts
FilesOfNode(c) == (IF c.type = FILE THEN 1 ELSE 0) + c.file_count
DirsOfNode(c)  == (IF c.type = DIRECTORY THEN 1 ELSE 0) + c.dir_count

\* the same, read from the child's document
FilesOfDocument(c) == (IF c.type = LabelFile THEN 1 ELSE 0) + c.file_count
DirsOfDocument(c)  == (IF c.type = LabelDirectory THEN 1 ELSE 0) + c.dir_count

\* C11: in the tree a request built and in the document it returned, the
\* file_count of every directory is the sum over its children of 1 for a file
\* plus the child's file_count, its dir_count the sum of 1 for a directory plus
\* the child's dir_count, and every file has both counts 0 and no children.
C11_CountsAddUp ==
    \A r \in Requests :
        Succeeded(r) =>
            /\ \A n \in Nodes(root_node[r]) :
                  /\ n.type = DIRECTORY =>
                        /\ n.file_count = SumOver(FilesOfNode, n.children)
                        /\ n.dir_count = SumOver(DirsOfNode, n.children)
                  /\ n.type = FILE =>
                        n.file_count = 0 /\ n.dir_count = 0 /\ n.children = << >>
            /\ \A d \in Documents(response[r].content.data) :
                  /\ d.type = LabelDirectory =>
                        /\ d.file_count = SumOver(FilesOfDocument, d.children)
                        /\ d.dir_count = SumOver(DirsOfDocument, d.children)
                  /\ d.type = LabelFile =>
                        /\ d.file_count = 0 /\ d.dir_count = 0
                        /\ "children" \notin DOMAIN d

\* a request returned a tree whose root counts two files and a directory, one
\* of the files inside that directory
C11_Witness ==
    \E r \in Requests :
        /\ Succeeded(r)
        /\ response[r].content.data.file_count = 2
        /\ response[r].content.data.dir_count = 1
        /\ Len(response[r].content.data.children) = 2

\* the segments of a path string: what lies between its slashes
RECURSIVE Segments(_, _)
Segments(t, seg) ==
    IF Len(t) = 0 THEN <<seg>>
    ELSE IF t[1] = "/" THEN <<seg>> \o Segments(Tail(t), << >>)
    ELSE Segments(Tail(t), Append(seg, t[1]))

\* the segments of the requested subpath that name something
Requested(q) == SelectSeq(Segments(q.subpath, << >>), LAMBDA g : g # << >> /\ g # <<".">>)

\* C12 as stated: the root's path is empty (also taking "." for empty) or the
\* root's own name, for every clone path and subpath.
C12_RootPathSelfRelative ==
    \A r \in Requests :
        Succeeded(r) =>
            root_node[r].path_str \in {<< >>, <<".">>, root_node[r].name}

\* C12 amended: the root's path is the requested subpath below the clone path:
\* "." when the subpath names nothing, else its segments joined by "/"; the
\* root's name is the last part of its full path; so the path is the name
\* exactly when one segment is requested, and it is never empty.
C12_RootPathBelowClone ==
    \A r \in Requests :
        Succeeded(r) =>
            LET n   == root_node[r]
                req == Requested(query[r])
            IN  /\ n.path = query[r].local_path \o req
                /\ n.path_str = (IF req = << >> THEN <<".">> ELSE JoinParts(req))
                /\ n.path_str # << >>
                /\ n.name = n.path[Len(n.path)]
                /\ (n.path_str = n.name) <=> (Len(req) = 1)
                /\ response[r].content.data.path = n.path_str

\* a directory two levels down was requested with a trailing slash and no
\* leading one, and the root's path came out as both segments
C12_Witness ==
    \E r \in Requests :
        /\ Succeeded(r)
        /\ query[r].subpath = <<"s","r","c","/","l","i","b","/">>
        /\ root_node[r].path_str = <<"s","r","c","/","l","i","b">>
        /\ root_node[r].name = <<"l","i","b">>

\* the error a cancelled traversal ends with
CancellationError == Exception("CancellationError", "Ingestion cancelled")

\* C13: a request whose caller signalled cancellation while its traversal was
\* in progress ends with a cancellation error and no document.
C13_CancelStopsWalk ==
    \A r \in Requests :
        (Done(r) /\ cancel[r]) =>
            /\ response[r].status_code # 200
            /\ "data" \notin DOMAIN response[r].content
            /\ raised[r].type = CancellationError.type

Requested_entry(fs, q) == EntryAt(fs, relative_to(RootPath(q), q.local_path))

\* C15: when the path ingested is a file, the root document has type "file"
\* and the file's byte length as its size, and the walk's total_files and
\* total_size have been incremented for that file.
C15_FileRoot ==
    \A r \in Requests :
        LET i == Requested_entry(repo, query[r])
        IN  (Succeeded(r) /\ i > 0 /\ repo[i].type = FILE) =>
                /\ response[r].content.data.type = LabelFile
                /\ response[r].content.data.size = repo[i].size
                /\ stats[r] # NoStats
                /\ stats[r].total_files = 1
                /\ stats[r].total_size = repo[i].size

\* the runs of stages a request may have gone through, whole or so far
StageRuns ==
    {<< >>,
     <<"parse">>,
     <<"parse", "error">>,
     <<"parse", "clone">>,
     <<"parse", "clone", "error">>,
     <<"parse", "clone", "build", "error">>,
     <<"parse", "clone", "build", "serialize", "respond">>}

LastStage(r) == IF stages[r] = << >> THEN "" ELSE stages[r][Len(stages[r])]

\* C16: the stages of a request run in the order parse, clone, build,
\* serialize, respond; the clone starts only after a parse that returned a
\* query, the tree is built only after a clone that raised nothing, a stage
\* that raises is followed by no other stage but the one 400 response, and a
\* request that has responded does nothing more.
C16_StagesInOrder ==
    /\ [](\A r \in Requests :
            /\ stages[r] \in StageRuns
            /\ Done(r) <=> LastStage(r) \in {"respond", "error"}
            /\ LastStage(r) = "respond" =>
                  /\ response[r].status_code = 200
                  /\ raised[r] = NoError
                  /\ query[r] # NoQuery
            /\ LastStage(r) = "error" =>
                  /\ response[r].status_code = 400
                  /\ response[r].content.success = FALSE
                  /\ stages[r] = <<"parse", "error">> => raised[r] = InvalidUrl
                  /\ stages[r] = <<"parse", "clone", "error">> => raised[r] \in CloneErrors
                  /\ stages[r] = <<"parse", "clone", "build", "error">>
                        => raised[r] = SizeLimitExceeded
            /\ (~Done(r) /\ stages[r] # << >>) =>
                  /\ query[r] # NoQuery
                  /\ raised[r] = NoError
                  /\ response[r] = NoResponse)
    /\ [][\A r \in Requests :
            /\ Done(r) =>
                  /\ response'[r] = response[r]
                  /\ stages'[r] = stages[r]
                  /\ pc'[r] = pc[r]
            /\ stages'[r] # stages[r] =>
                  /\ Len(stages'[r]) > Len(stages[r])
                  /\ SubSeq(stages'[r], 1, Len(stages[r])) = stages[r]]_vars

\* a request whose parse raised answered 400, having neither cloned nor built
C16_Witness ==
    \E r \in Requests :
        /\ Failed(r)
        /\ stages[r] = <<"parse", "error">>
        /\ raised[r] = InvalidUrl
        /\ root_node[r] = NoNode

====
